---------------------------- MODULE Spec2Model ----------------------------
(***************************************************************************)
(* State-machine model of the ComfyUI Model Cleaner front end.             *)
(*                                                                         *)
(* The embedded-panel variant (web/interactive_model_cleaner.js) keeps one *)
(* module-level session object (interactiveModelCleanerState) and, on      *)
(* every participating graph node, the candidate list, the selection, the  *)
(* scroll offset and the clickable rectangles.  The engine pushes          *)
(* "interactive-model-cleaner-data" events; the user clicks, presses arrow *)
(* keys, and the host repaints.  Every handler runs to completion (single  *)
(* threaded event loop), so every handler is one action.                   *)
(*                                                                         *)
(* The modal-dialog variant (web/model_cleaner.js) keeps a second session  *)
(* object (modelCleanerState), opens one dialog per "model-cleaner-data"   *)
(* event, and listens to the host's execution_start and                    *)
(* execution_interrupted events.  Both scripts are loaded by the host.     *)
(***************************************************************************)
EXTENDS Integers, Sequences, FiniteSets, TLC

\* ---------------------------------------------------------------- bounds

\* Longest candidate list an engine event carries in the model.
MaxModels == 3

\* Longest candidate list of an event when two participating nodes share the
\* session object (specification SpecTwo).
TwoMaxModels == 1

\* Longest candidate list of an event when the modal-dialog variant runs
\* next to the panel (specification SpecModal).
ModalMaxModels == 1

\* Most dialogs open at once.
MaxDialogs == 2

\* Longest candidate list of an event when a scanner node runs next to the
\* panel and the dialog (specification SpecEvents).
ScanMaxModels == 1

\* Most scanner-cancel requests awaiting their response at once.
MaxScanCancels == 1

\* The panel shows at most 12 rows (interactive_model_cleaner.js:202, 347,
\* 381).  The model scales that cap down so that lists longer than the cap,
\* and with them scrolling, stay within MaxModels; every use of the literal
\* 12 in the source is a use of VisibleCap here.
VisibleCap == 2

\* ------------------------------------------------- constants of the code

startY == 230
rowHeight == 35
scrollButtonSize == 20
scrollButtonY == 180
buttonWidth == 80
buttonHeight == 30
buttonSpacing == 10
layoutButtonInset == 60
paintButtonInset == 50
panelWidth == 300
minPanelHeight == 300
baseHeight == 250
bottomHeight == 100

\* ------------------------------------------------------------ the graph

\* Node ids of the host graph.  Nodes 1 and 2 are of the class
\* InteractiveModelCleanerNode, node 3 is of another class.
InteractiveIds == {1, 2}
OtherIds == {3}
NodeIds == InteractiveIds \cup OtherIds

\* The text of an id, as FormData.append and the engine's events carry it.
IdStr(n) == CASE n = 1 -> "1" [] n = 2 -> "2" [] n = 3 -> "3" [] OTHER -> "?"

\* Ids an engine event may carry: the ids of the three nodes, the id of a
\* node that is not in the graph, and the empty id.
EventIds == {"1", "2", "3", "9", ""}

NaN == 0 - 1

\* parseInt(id): the number a decimal text denotes, NaN for the empty text.
ParseInt(s) == CASE s = "1" -> 1 [] s = "2" -> 2 [] s = "3" -> 3
                 [] s = "9" -> 9 [] OTHER -> NaN

\* Size the host gave a node before nodeCreated runs (LiteGraph computes it
\* from the node's slots and widgets; the extension does not control it).
HostSizes == {<<300, 300>>, <<210, 130>>}

\* A candidate list of an event: n candidates.  A candidate is immutable and
\* is referred to by its position only, so it is modelled by its position.
ModelList(n) == IF n = 0 THEN <<>> ELSE [i \in 1..n |-> i - 1]

Min(a, b) == IF a < b THEN a ELSE b
Max(a, b) == IF a > b THEN a ELSE b

\* ----------------------------------------------------------- the state

VARIABLES
    state,      \* interactiveModelCleanerState
    nodes,      \* the fields the extension keeps on each graph node
    graph,      \* app.graph._nodes: ids of the nodes in the graph, in order
    sent,       \* requests the last step handed to api.fetchApi
    sessMsgs,   \* per session id: messages sent since data-ready opened it
    failed,     \* a request of the last step fails in transport
    modelCleanerState,  \* the session object of the modal-dialog variant
    dialogs,    \* the open dialogs, in document order
    handled,    \* runs of the data-ready handler the last step made
    currentLang,    \* the active locale of the panel
    scanners,   \* the fields the extension keeps on each scanner node
    isScanning, \* model_cleaner.js, the module-level flag
    scanCancels \* scanner-cancel requests awaiting their response

vars == <<state, nodes, graph, sent, sessMsgs, failed, modelCleanerState,
          dialogs, handled, currentLang, scanners, isScanning, scanCancels>>

\* The variables of the scanner nodes.
scanVars == <<scanners, isScanning, scanCancels>>

\* The variables of the modal-dialog variant.
modalVars == <<modelCleanerState, dialogs>>

NoSession == 0 - 1

\* null, as the value of currentNodeId.
Null == "null"

\* new InteractiveModelCleanerState()
InitialState ==
    [paused |-> FALSE, currentNodeId |-> Null,
     models |-> <<>>, selectedIndices |-> <<>>]

\* A node the extension has not touched.
BlankNode(n) ==
    [id |-> n, isInteractiveModelCleaner |-> FALSE,
     models |-> <<>>, selectedModels |-> <<>>,
     modelRects |-> <<>>, buttonRects |-> {},
     scrollOffset |-> 0, maxVisibleModels |-> 0, size |-> <<0, 0>>]

\* A Set of JavaScript keeps insertion order: a sequence without repeats.
SetHas(s, v) == \E k \in 1..Len(s) : s[k] = v
SetDelete(s, v) == SelectSeq(s, LAMBDA e : e # v)
SetAdd(s, v) == IF SetHas(s, v) THEN s ELSE Append(s, v)
Elements(s) == {s[k] : k \in 1..Len(s)}

\* buttonRects is an object keyed by button name: a set of named rectangles.
ButtonRect(name, x, y, w, h) ==
    [name |-> name, x |-> x, y |-> y, width |-> w, height |-> h]
Has(rects, k) == \E r \in rects : r.name = k
Get(rects, k) == CHOOSE r \in rects : r.name = k
Put(rects, r) == {q \in rects : q.name # r.name} \cup {r}

InRect(pos, r) ==
    /\ pos[1] >= r.x /\ pos[1] <= r.x + r.width
    /\ pos[2] >= r.y /\ pos[2] <= r.y + r.height

\* ------------------------------------------------- InteractiveModelCleanerState

setPaused(st, paused, nodeId) ==
    IF paused
    THEN [st EXCEPT !.paused = TRUE, !.currentNodeId = nodeId]
    ELSE [st EXCEPT !.paused = FALSE, !.currentNodeId = nodeId,
                    !.models = <<>>, !.selectedIndices = <<>>]

setModels(st, models) ==
    [st EXCEPT !.models = models, !.selectedIndices = <<>>]

\* ----------------------------------------------------------- sendMessage

\* The POST to /model_cleaner_message with the form fields id and message;
\* message is the JSON text of an array, kept as the array it lists.
sendMessage(nodeId, message) ==
    [endpoint |-> "/model_cleaner_message", id |-> IdStr(nodeId),
     message |-> message]

\* A request as the model records it: the request, and the control whose
\* handler issued it.
Request(button, msg) ==
    [button |-> button, endpoint |-> msg.endpoint, id |-> msg.id,
     message |-> msg.message]

\* ------------------------------------------------------- updateModelRects

\* The candidate rows: one rectangle per visible candidate, carrying the
\* candidate's index.
RowRects(node) ==
    IF Len(node.models) > 0
    THEN LET maxVisibleModels ==
                 IF node.maxVisibleModels # 0 THEN node.maxVisibleModels
                 ELSE VisibleCap
             scrollOffset == node.scrollOffset
             visibleModels ==
                 Min(Len(node.models) - scrollOffset, maxVisibleModels)
         IN  IF visibleModels <= 0 THEN <<>>
             ELSE [k \in 1..visibleModels |->
                     [x |-> 10, y |-> startY + (k - 1) * rowHeight,
                      width |-> node.size[1] - 20, height |-> rowHeight - 2,
                      index |-> scrollOffset + (k - 1)]]
    ELSE <<>>

ScrollRects(node) ==
    IF Len(node.models) > node.maxVisibleModels
    THEN LET scrollButtonX == node.size[1] - scrollButtonSize - 5
         IN  {ButtonRect("scrollUp", scrollButtonX, scrollButtonY,
                         scrollButtonSize, scrollButtonSize),
              ButtonRect("scrollDown", scrollButtonX,
                         scrollButtonY + scrollButtonSize + 5,
                         scrollButtonSize, scrollButtonSize)}
    ELSE {}

\* The cancel and confirm rectangles, inset from the bottom edge.
BottomRects(node, inset) ==
    LET buttonY == node.size[2] - inset
    IN  {ButtonRect("cancel",
                    (node.size[1] \div 2) - buttonWidth - (buttonSpacing \div 2),
                    buttonY, buttonWidth, buttonHeight),
         ButtonRect("confirm",
                    (node.size[1] \div 2) + (buttonSpacing \div 2),
                    buttonY, buttonWidth, buttonHeight)}

\* updateModelRects with the cancel and confirm rectangles (lines 422-440)
\* computed only for a node that holds candidates.
updateModelRectsNeedingModels(node) ==
    [node EXCEPT
        !.modelRects = RowRects(node),
        !.buttonRects =
            IF Len(node.models) > 0
            THEN ScrollRects(node) \cup BottomRects(node, layoutButtonInset)
            ELSE ScrollRects(node)]

updateModelRects(node) ==
    [node EXCEPT
        !.modelRects = RowRects(node),
        !.buttonRects = ScrollRects(node) \cup BottomRects(node, layoutButtonInset)]

\* -------------------------------------------------- drawInteractiveInterface

\* Painting draws only, except that it stores the rectangles at which it
\* drew the cancel and confirm buttons into node.buttonRects.
drawInteractiveInterface(node) ==
    IF ~node.isInteractiveModelCleaner THEN node
    ELSE LET drawn == BottomRects(node, paintButtonInset)
         IN  [node EXCEPT !.buttonRects =
                 Put(Put(@, Get(drawn, "cancel")), Get(drawn, "confirm"))]

\* ------------------------------------------- handleInteractiveModelCleanerData

NoNode == 0

\* app.graph.getNodeById(key): the node of the graph with that id, if any.
getNodeById(g, key) ==
    IF \E k \in 1..Len(g) : g[k] = key THEN key ELSE NoNode

\* FindNode without the scan of lines 326-338.
FindNodeByIdOnly(g, ns, id) ==
    LET parsed == IF id # "" THEN getNodeById(g, ParseInt(id)) ELSE NoNode
        raw == IF id # "" /\ parsed = NoNode
               THEN IF \E k \in 1..Len(g) : IdStr(g[k]) = id
                    THEN CHOOSE n \in NodeIds : IdStr(n) = id
                    ELSE NoNode
               ELSE parsed
    IN  raw

\* Lines 312-338: by id (parsed, then raw), else the first node of the graph
\* already marked isInteractiveModelCleaner.
FindNode(g, ns, id) ==
    LET parsed == IF id # "" THEN getNodeById(g, ParseInt(id)) ELSE NoNode
        raw == IF id # "" /\ parsed = NoNode
               THEN IF \E k \in 1..Len(g) : IdStr(g[k]) = id
                    THEN CHOOSE n \in NodeIds : IdStr(n) = id
                    ELSE NoNode
               ELSE parsed
        marked == {k \in 1..Len(g) : ns[g[k]].isInteractiveModelCleaner}
    IN  IF raw # NoNode THEN raw
        ELSE IF marked = {} THEN NoNode
        ELSE g[CHOOSE k \in marked : \A j \in marked : k <= j]

\* NodeWithData without line 344 (node.selectedModels.clear()).
NodeWithDataKeepingSelection(node, models) ==
    LET maxVisibleModels == Min(Len(models), VisibleCap)
        actualVisibleModels == Min(Len(models), maxVisibleModels)
        newHeight == baseHeight + actualVisibleModels * rowHeight + bottomHeight
    IN  updateModelRects(
            [node EXCEPT !.models = models,
                         !.maxVisibleModels = maxVisibleModels,
                         !.size = <<panelWidth, Max(minPanelHeight, newHeight)>>])

\* Lines 340-364: the located node takes the event's list.
NodeWithData(node, models) ==
    LET maxVisibleModels == Min(Len(models), VisibleCap)
        actualVisibleModels == Min(Len(models), maxVisibleModels)
        newHeight == baseHeight + actualVisibleModels * rowHeight + bottomHeight
    IN  updateModelRects(
            [node EXCEPT !.models = models,
                         !.selectedModels = <<>>,
                         !.maxVisibleModels = maxVisibleModels,
                         !.size = <<panelWidth, Max(minPanelHeight, newHeight)>>])

\* w is the pair of the session object and the nodes' fields; data is the
\* event's detail.
handleInteractiveModelCleanerData(w, g, data) ==
    LET st == setModels(setPaused(w.state, TRUE, data.id), data.models)
        n == FindNode(g, w.nodes, data.id)
    IN  IF n # NoNode /\ w.nodes[n].isInteractiveModelCleaner
        THEN [state |-> st,
              nodes |-> [w.nodes EXCEPT ![n] = NodeWithData(@, data.models)]]
        ELSE [state |-> st, nodes |-> w.nodes]

\* ------------------------------------------------------------ handleNodeClick

\* The first candidate row containing pos, 0 if none.
HitRow(node, pos) ==
    LET hits == {k \in 1..Len(node.modelRects) : InRect(pos, node.modelRects[k])}
    IN  IF hits = {} THEN 0 ELSE CHOOSE k \in hits : \A j \in hits : k <= j

HitButton(node, pos, name) ==
    Has(node.buttonRects, name) /\ InRect(pos, Get(node.buttonRects, name))

\* ToggleSelected without the delete branch of lines 712-713.
ToggleSelectedAddOnly(selectedModels, index) ==
    SetAdd(selectedModels, index)

\* Lines 712-716.
ToggleSelected(selectedModels, index) ==
    IF SetHas(selectedModels, index)
    THEN SetDelete(selectedModels, index)
    ELSE SetAdd(selectedModels, index)

\* Lines 731-735.
ScrolledUp(node) ==
    IF node.scrollOffset > 0
    THEN updateModelRects([node EXCEPT !.scrollOffset = Max(0, @ - 1)])
    ELSE node

\* Lines 746-751.
ScrolledDown(node) ==
    LET maxScroll == Max(0, Len(node.models) - node.maxVisibleModels)
    IN  IF node.scrollOffset < maxScroll
        THEN updateModelRects([node EXCEPT !.scrollOffset = Min(maxScroll, @ + 1)])
        ELSE node

\* Lines 773-775 and 808-810.
ClearedNode(node) ==
    [node EXCEPT !.models = <<>>, !.selectedModels = <<>>]

\* Lines 771 and 796-805: what the cancel and the confirm button send.
CancelMessage(st, node) == sendMessage(node.id, <<>>)

ConfirmMessage(st, node) ==
    IF st.paused /\ Len(node.models) > 0
    THEN sendMessage(node.id, node.selectedModels)
    ELSE sendMessage(node.id, <<>>)

\* The outcome of handleNodeClick(node, pos): the action the click resolved
\* to, the row index it toggled, the session object and the node afterwards,
\* the requests sent and the value returned.
Outcome(act, index, st, node, msgs, result) ==
    [act |-> act, index |-> index, state |-> st, node |-> node,
     sent |-> msgs, result |-> result]

\* handleNodeClick with the cancel and confirm checks (lines 758-814) moved
\* in front of the candidate rows.
handleNodeClickButtonsFirst(st, node, pos) ==
    LET row == HitRow(node, pos)
    IN  IF HitButton(node, pos, "cancel")
        THEN Outcome("cancel", 0, setPaused(st, FALSE, Null), ClearedNode(node),
                     <<Request("cancel", CancelMessage(st, node))>>, TRUE)
        ELSE IF HitButton(node, pos, "confirm")
        THEN Outcome("confirm", 0, setPaused(st, FALSE, Null), ClearedNode(node),
                     <<Request("confirm", ConfirmMessage(st, node))>>, TRUE)
        ELSE IF st.paused /\ Len(node.models) > 0 /\ row # 0
        THEN Outcome("toggle", node.modelRects[row].index, st,
                     [node EXCEPT !.selectedModels =
                         ToggleSelected(@, node.modelRects[row].index)],
                     <<>>, TRUE)
        ELSE IF HitButton(node, pos, "scrollUp")
        THEN Outcome("scrollUp", 0, st, ScrolledUp(node), <<>>, TRUE)
        ELSE IF HitButton(node, pos, "scrollDown")
        THEN Outcome("scrollDown", 0, st, ScrolledDown(node), <<>>, TRUE)
        ELSE Outcome("none", 0, st, node, <<>>, FALSE)

handleNodeClick(st, node, pos) ==
    LET row == HitRow(node, pos)
    IN  IF st.paused /\ Len(node.models) > 0 /\ row # 0
        THEN Outcome("toggle", node.modelRects[row].index, st,
                     [node EXCEPT !.selectedModels =
                         ToggleSelected(@, node.modelRects[row].index)],
                     <<>>, TRUE)
        ELSE IF HitButton(node, pos, "scrollUp")
        THEN Outcome("scrollUp", 0, st, ScrolledUp(node), <<>>, TRUE)
        ELSE IF HitButton(node, pos, "scrollDown")
        THEN Outcome("scrollDown", 0, st, ScrolledDown(node), <<>>, TRUE)
        ELSE IF HitButton(node, pos, "cancel")
        THEN Outcome("cancel", 0, setPaused(st, FALSE, Null), ClearedNode(node),
                     <<Request("cancel", CancelMessage(st, node))>>, TRUE)
        ELSE IF HitButton(node, pos, "confirm")
        THEN Outcome("confirm", 0, setPaused(st, FALSE, Null), ClearedNode(node),
                     <<Request("confirm", ConfirmMessage(st, node))>>, TRUE)
        ELSE Outcome("none", 0, st, node, <<>>, FALSE)

\* ---------------------------------------------------------------- onMouseDown

\* The node's onMouseDown before the extension replaced it: absent, or a
\* handler that returns true, or one that returns false.
OriginalHandlers == {"absent", "true", "false"}

\* originalOnMouseDown && originalOnMouseDown.apply(this, arguments)
CallOriginal(original) ==
    [invoked |-> original # "absent",
     returned |-> IF original = "absent" THEN "undefined" ELSE original]

\* onMouseDown with the test of e.isPrimary (line 231) left out.
onMouseDownAnyButton(st, node, isPrimary, pos, original) ==
    LET clickResult == handleNodeClick(st, node, pos)
        ran == node.isInteractiveModelCleaner
    IN  IF ran /\ clickResult.result
        THEN [state |-> clickResult.state, node |-> clickResult.node,
              sent |-> clickResult.sent, act |-> clickResult.act,
              originalInvoked |-> FALSE, returned |-> "true"]
        ELSE [state |-> IF ran THEN clickResult.state ELSE st,
              node |-> IF ran THEN clickResult.node ELSE node,
              sent |-> <<>>, act |-> "none",
              originalInvoked |-> CallOriginal(original).invoked,
              returned |-> CallOriginal(original).returned]

\* Lines 221-243: the replacement of node.onMouseDown.
onMouseDown(st, node, isPrimary, pos, original) ==
    LET clickResult == handleNodeClick(st, node, pos)
        ran == isPrimary /\ node.isInteractiveModelCleaner
    IN  IF ran /\ clickResult.result
        THEN [state |-> clickResult.state, node |-> clickResult.node,
              sent |-> clickResult.sent, act |-> clickResult.act,
              originalInvoked |-> FALSE, returned |-> "true"]
        ELSE [state |-> IF ran THEN clickResult.state ELSE st,
              node |-> IF ran THEN clickResult.node ELSE node,
              sent |-> <<>>, act |-> "none",
              originalInvoked |-> CallOriginal(original).invoked,
              returned |-> CallOriginal(original).returned]

\* ------------------------------------------------------------------ onKeyDown

\* Lines 247-263: the arrow keys scroll a list longer than the panel.
onKeyDown(node, key) ==
    IF node.isInteractiveModelCleaner
       /\ Len(node.models) > node.maxVisibleModels
       /\ key \in {"ArrowUp", "ArrowDown"}
    THEN LET maxScroll == Max(0, Len(node.models) - node.maxVisibleModels)
             direction == IF key = "ArrowUp" THEN 0 - 1 ELSE 1
         IN  updateModelRects(
                 [node EXCEPT !.scrollOffset =
                     Max(0, Min(maxScroll, @ + direction))])
    ELSE node

\* ----------------------------------------------------------------- nodeCreated

\* Lines 189-267.  The rectangles are computed from the size the host gave
\* the node; the size is set to 300 x 300 only afterwards.
nodeCreated(n, hostSize) ==
    IF n \in InteractiveIds
    THEN [updateModelRects(
             [BlankNode(n) EXCEPT !.isInteractiveModelCleaner = TRUE,
                                  !.maxVisibleModels = VisibleCap,
                                  !.size = hostSize])
          EXCEPT !.size = <<panelWidth, minPanelHeight>>]
    ELSE BlankNode(n)

\* ------------------------------------------------------- the event listeners

\* api.addEventListener("interactive-model-cleaner-data", ...) is called
\* twice, at module load (lines 132-155) and in setup (lines 274-279): one
\* event runs the handler once per listener, in registration order.
DispatchData(w, g, data) ==
    handleInteractiveModelCleanerData(
        handleInteractiveModelCleanerData(w, g, data), g, data)

\* The listeners one event runs, in registration order.
Listeners == <<"moduleLoad", "setup">>

\* undefined, as the value of the models field of an event that has none:
\* kept as a list that no event carries (candidates are counted from 0).
Undefined == <<0 - 1>>

\* handleInteractiveModelCleanerData for an event without a candidate list:
\* lines 307-308 store the id and the undefined list, and line 341 reads
\* models.length, which throws, once a participating node was located.
handleMalformedData(w, g, id) ==
    LET st == setModels(setPaused(w.state, TRUE, id), Undefined)
        n == FindNode(g, w.nodes, id)
    IN  [state |-> st, nodes |-> w.nodes,
         threw |-> n # NoNode /\ w.nodes[n].isInteractiveModelCleaner]

\* createModelSelectionUI for an event without a candidate list: lines
\* 174-175 store the id and the undefined list, and line 216 reads
\* models.length, which throws before the dialog is added to the document.
createMalformedSelectionUI(st, ds, id) ==
    [state |-> setModels(setPaused(st, TRUE, id), Undefined),
     dialogs |-> ds, threw |-> TRUE]

\* ------------------------------------------------------------- the locale

Langs == {"zh", "en"}

\* No language tag in the event (event.detail.lang is undefined or empty).
NoLang == ""

\* Language tags an event may carry.
LangTags == {NoLang, "zh", "zh-CN", "ZH-tw", "en", "en-US", "fr"}

\* tag.toLowerCase().startsWith("zh") ? "zh" : "en"
LangOf(tag) == IF tag \in {"zh", "zh-CN", "ZH-tw"} THEN "zh" ELSE "en"

\* Lines 134-143: the module-load listener follows the event's tag.
LangAfter(lang, tag) == IF tag # NoLang THEN LangOf(tag) ELSE lang

\* I18N[lang][key]: the text of key in the table of lang.  Every key the
\* panel draws is in both tables; a text is kept as the table and the key
\* it was taken from.
Text(lang, key) == [lang |-> lang, key |-> key]

alwaysEnglishKeys ==
    {"waiting_for_data", "run_workflow_to_get_models", "node_will_show_ui",
     "cancel", "confirm", "proceed"}

\* t without the alwaysEnglishKeys (lines 53-61).
tFollowingLocale(key, lang) == Text(lang, key)

\* Lines 52-67; lang is currentLang.
t(key, lang) ==
    Text(IF key \in alwaysEnglishKeys THEN "en" ELSE lang, key)

\* The texts drawInteractiveInterface draws through t for a node (lines
\* 460-499, 579-583, 653, 676-678).
DrawnTexts(node, lang) ==
    LET hasModelData == Len(node.models) > 0
    IN  (IF ~hasModelData
         THEN {t("waiting_for_data", lang),
               t("run_workflow_to_get_models", lang)}
         ELSE {t("found_unused_models", lang), t("action_mode", lang),
               t("backup_folder", lang), t("select_tip", lang)}
              \cup (IF Len(node.selectedModels) > 0
                    THEN {t("selected_count", lang)} ELSE {}))
        \cup {t("cancel", lang),
              IF hasModelData THEN t("confirm", lang) ELSE t("proceed", lang)}

\* ---------------------------------------------------------------- bookkeeping

\* Session ids whose messages are counted: the ids of the participating
\* nodes (a request carries the id of the node that was clicked).
SessionIds == {IdStr(n) : n \in InteractiveIds}

\* sessMsgs after the requests msgs were sent; the count stops at 2, which
\* stands for "more than one".
Counted(counts, msgs) ==
    [i \in SessionIds |->
        IF counts[i] # NoSession /\ \E k \in 1..Len(msgs) : msgs[k].id = i
        THEN Min(counts[i] + 1, 2)
        ELSE counts[i]]

InGraph(n) == \E k \in 1..Len(graph) : graph[k] = n

\* A step that is no data-ready event and touches neither the locale nor
\* the scanner nodes.
OtherwiseQuiet ==
    /\ handled' = 0
    /\ UNCHANGED <<currentLang, scanVars>>

\* api.fetchApi returns a promise that none of the senders awaits or
\* catches: whether the requests msgs of a step fail in transport is the
\* network's choice, and no handler sees it.
TransportOutcomes(msgs) == IF msgs = <<>> THEN {FALSE} ELSE {FALSE, TRUE}

\* Heights the panel takes: 300 at creation, and one per number of visible
\* rows once an event has arrived.
PanelHeights ==
    {minPanelHeight} \cup
    {baseHeight + k * rowHeight + bottomHeight : k \in 0..VisibleCap}

\* Click positions: a point outside every region, the two scroll buttons,
\* the middle of every row, and, in the column of the cancel and of the
\* confirm button, for every panel height a point only the layout's
\* rectangle holds, one both hold and one only the painted rectangle holds;
\* and the two buttons as laid out from the smaller host size.
ClickPositions ==
    {<<5, 5>>, <<285, 190>>, <<285, 215>>, <<60, 85>>, <<150, 85>>}
    \cup {<<100, startY + (k - 1) * rowHeight + 15>> : k \in 1..VisibleCap}
    \cup {<<x, h - d>> : x \in {100, 200}, h \in PanelHeights, d \in {55, 40, 25}}

\* ------------------------------------------------------- the scanner nodes

\* Nodes of type ModelScannerNode.
ScannerIds == {1, 2}

\* A scanner node that is not in the graph.
BlankScanner ==
    [added |-> FALSE, scanStatus |-> "ready", scanProgress |-> 0,
     cancelButtonBounds |-> FALSE]

\* Values of data.progress in a progress event; 0 also stands for an event
\* without one (progressData.progress || 0).
ScanProgressValues == {0, 50}

ScanCancelEndpoint == "/model_scanner_cancel"

\* The cancel button a scanning node draws (lines 520-538), and a point in
\* it and one outside it.
scanCancelButton == [x |-> 5, y |-> 5, width |-> 20, height |-> 20]
ScanClickPositions == {<<10, 10>>, <<100, 60>>}

\* What the handlers of model_cleaner.js can reach: the two session
\* objects, the panel nodes, the scanner nodes and the flag.
Page ==
    [state |-> state, modelCleanerState |-> modelCleanerState,
     nodes |-> nodes, dialogs |-> dialogs,
     scanners |-> scanners, isScanning |-> isScanning]

\* Lines 455-460.
onNodeAdded(sc) ==
    [sc EXCEPT !.added = TRUE, !.scanProgress = 0, !.scanStatus = "ready"]

\* Lines 464-474.
onExecuted(page, s) ==
    [page EXCEPT !.scanners[s].scanStatus = "completed",
                 !.isScanning = FALSE]

\* Lines 477-486.
onExecutionStart(page, s) ==
    [page EXCEPT !.scanners[s].scanStatus = "scanning",
                 !.isScanning = TRUE]

\* Lines 489-493.
onProgress(sc, progress) ==
    [sc EXCEPT !.scanProgress = progress, !.scanStatus = "scanning"]

\* Lines 380-386 and 401-415: every scanner node of the graph gets the event.
handleScanProgress(page, progress) ==
    [page EXCEPT !.scanners =
        [s \in ScannerIds |->
            IF page.scanners[s].added
            THEN onProgress(page.scanners[s], progress)
            ELSE page.scanners[s]]]

\* handleScanComplete that also ends the dialog's session.
handleScanCompleteEndingSession(page) ==
    [page EXCEPT !.isScanning = FALSE,
                 !.modelCleanerState = setPaused(@, FALSE, Null)]

\* Lines 366-375.
handleScanComplete(page) == [page EXCEPT !.isScanning = FALSE]

\* Lines 391-397: a notification only.
handleCleanupComplete(page) == page

\* Lines 497-543: a scanning node stores the bounds of its cancel button.
scannerDrawForeground(sc) ==
    IF sc.scanStatus = "scanning"
    THEN [sc EXCEPT !.cancelButtonBounds = TRUE]
    ELSE sc

\* Lines 546-561: the click reaches sendScanCancel.
ScannerClickCancels(sc, pos) ==
    /\ sc.scanStatus = "scanning"
    /\ sc.cancelButtonBounds
    /\ InRect(pos, scanCancelButton)

\* Lines 576-593: the key press reaches sendScanCancel.
KeyCombos == {"Ctrl+Shift+C", "Escape", "Enter"}

ShortcutCancels(scanning, combo, inInput) ==
    IF combo = "Ctrl+Shift+C" THEN scanning
    ELSE combo = "Escape" /\ scanning /\ ~inInput

\* Lines 92-122, the response of the cancel request: acknowledged, refused
\* (success is false), or failed in transport.
CancelOutcomes == {"success", "refused", "error"}

scanCancelResponse(page, outcome) ==
    IF outcome = "success"
    THEN [page EXCEPT
            !.isScanning = FALSE,
            !.scanners =
                [s \in ScannerIds |->
                    IF page.scanners[s].added
                    THEN [page.scanners[s] EXCEPT !.scanStatus = "cancelled",
                                                  !.scanProgress = 0]
                    ELSE page.scanners[s]]]
    ELSE page

\* -------------------------------------------------------------------- actions

Init ==
    /\ state = InitialState
    /\ nodes = [n \in NodeIds |-> BlankNode(n)]
    /\ graph = <<>>
    /\ sent = <<>>
    /\ sessMsgs = [i \in SessionIds |-> NoSession]
    /\ failed = FALSE
    /\ modelCleanerState = InitialState
    /\ dialogs = <<>>
    /\ handled = 0
    /\ currentLang = "zh"
    /\ scanners = [s \in ScannerIds |-> BlankScanner]
    /\ isScanning = FALSE
    /\ scanCancels = 0

\* The host adds node n to the graph and calls nodeCreated.
NodeCreated(n, hostSize) ==
    /\ ~InGraph(n)
    /\ graph' = Append(graph, n)
    /\ nodes' = [nodes EXCEPT ![n] = nodeCreated(n, hostSize)]
    /\ sent' = <<>>
    /\ failed' = FALSE
    /\ OtherwiseQuiet
    /\ UNCHANGED <<state, sessMsgs, modalVars>>

\* The engine pushes a data-ready event with language tag lang.
DataReadyEvent(id, models, lang) ==
    LET data == [id |-> id, models |-> models]
        w == DispatchData([state |-> state, nodes |-> nodes], graph, data)
    IN  /\ state' = w.state
        /\ nodes' = w.nodes
        /\ handled' = Len(Listeners)
        /\ currentLang' = LangAfter(currentLang, lang)
        /\ sent' = <<>>
        /\ failed' = FALSE
        /\ UNCHANGED scanVars
        /\ sessMsgs' = IF id \in SessionIds
                       THEN [sessMsgs EXCEPT ![id] = 0]
                       ELSE sessMsgs
        /\ UNCHANGED <<graph, modalVars>>

\* The engine pushes a data-ready event that carries no language tag.
DataReady(id, models) == DataReadyEvent(id, models, NoLang)

\* The engine pushes a data-ready event that carries no candidate list; both
\* listeners run the handler, and each run ends for itself.
MalformedDataReady(id) ==
    LET w1 == handleMalformedData([state |-> state, nodes |-> nodes], graph, id)
        w2 == handleMalformedData(w1, graph, id)
    IN  /\ state' = w2.state
        /\ nodes' = w2.nodes
        /\ handled' = Len(Listeners)
        /\ sent' = <<>>
        /\ failed' = FALSE
        /\ UNCHANGED <<currentLang, scanVars>>
        /\ sessMsgs' = IF id \in SessionIds
                       THEN [sessMsgs EXCEPT ![id] = 0]
                       ELSE sessMsgs
        /\ UNCHANGED <<graph, modalVars>>

\* A pointer-down at pos on participating node n, whose onMouseDown the
\* extension replaced.
PointerDown(n, pos, isPrimary, original) ==
    /\ InGraph(n)
    /\ nodes[n].isInteractiveModelCleaner
    /\ LET r == onMouseDown(state, nodes[n], isPrimary, pos, original)
       IN  /\ state' = r.state
           /\ nodes' = [nodes EXCEPT ![n] = r.node]
           /\ sent' = r.sent
           /\ sessMsgs' = Counted(sessMsgs, r.sent)
           /\ failed' \in TransportOutcomes(r.sent)
           /\ OtherwiseQuiet
    /\ UNCHANGED <<graph, modalVars>>

\* A primary-button pointer-down at pos on participating node n, whose
\* class defines no onMouseDown of its own.
Click(n, pos) == PointerDown(n, pos, TRUE, "absent")

\* A pointer-down of another button.
SecondaryDown(n, pos) ==
    \E original \in OriginalHandlers : PointerDown(n, pos, FALSE, original)

\* The user resizes node n: the host sets node.size and calls nothing of
\* the extension.
Resize(n, size) ==
    /\ InGraph(n)
    /\ nodes[n].isInteractiveModelCleaner
    /\ nodes[n].size # size
    /\ nodes' = [nodes EXCEPT ![n].size = size]
    /\ sent' = <<>>
    /\ failed' = FALSE
    /\ OtherwiseQuiet
    /\ UNCHANGED <<state, graph, sessMsgs, modalVars>>

\* A key press on participating node n.
KeyDown(n, key) ==
    /\ InGraph(n)
    /\ nodes[n].isInteractiveModelCleaner
    /\ nodes' = [nodes EXCEPT ![n] = onKeyDown(@, key)]
    /\ sent' = <<>>
    /\ failed' = FALSE
    /\ OtherwiseQuiet
    /\ UNCHANGED <<state, graph, sessMsgs, modalVars>>

\* The host repaints node n (onDrawForeground).
Paint(n) ==
    /\ InGraph(n)
    /\ nodes[n].isInteractiveModelCleaner
    /\ nodes' = [nodes EXCEPT ![n] = drawInteractiveInterface(@)]
    /\ sent' = <<>>
    /\ failed' = FALSE
    /\ OtherwiseQuiet
    /\ UNCHANGED <<state, graph, sessMsgs, modalVars>>

Keys == {"ArrowUp", "ArrowDown"}

\* One participating node, one node of another class, and events with the
\* id of either, of no node, or with no id.
PanelNodes == {1, 3}
PanelEventIds == {"1", "3", "9", ""}

Next ==
    \/ \E n \in PanelNodes, hs \in HostSizes : NodeCreated(n, hs)
    \/ \E id \in PanelEventIds, len \in 0..MaxModels :
          DataReady(id, ModelList(len))
    \/ \E n \in PanelNodes, pos \in ClickPositions : Click(n, pos)
    \/ \E n \in PanelNodes, key \in Keys : KeyDown(n, key)
    \/ \E n \in PanelNodes : Paint(n)

Spec == Init /\ [][Next]_vars

\* Two participating nodes, which share the one session object, and events
\* with the id of either.
TwoNodes == {1, 2}
TwoEventIds == {"1", "2", "9"}

NextTwo ==
    \/ \E n \in TwoNodes, hs \in HostSizes : NodeCreated(n, hs)
    \/ \E id \in TwoEventIds, len \in 0..TwoMaxModels :
          DataReady(id, ModelList(len))
    \/ \E n \in TwoNodes, pos \in ClickPositions : Click(n, pos)
    \/ \E n \in TwoNodes, key \in Keys : KeyDown(n, key)
    \/ \E n \in TwoNodes : Paint(n)

SpecTwo == Init /\ [][NextTwo]_vars

\* A panel the user resizes: shrunk back to its initial size, so that the
\* painted buttons lie over the rows, or made narrow and low, so that the
\* confirm button lies over the scroll buttons.
ResizeNode == 1
ResizeSizes == {<<panelWidth, minPanelHeight>>, <<210, 240>>}

\* The click positions, and a point in each scroll button of a panel
\* 210 wide.
ResizeClickPositions == ClickPositions \cup {<<187, 195>>, <<187, 212>>}

NextResize ==
    \/ \E hs \in HostSizes : NodeCreated(ResizeNode, hs)
    \/ \E len \in 0..MaxModels :
          DataReady(IdStr(ResizeNode), ModelList(len))
    \/ \E pos \in ResizeClickPositions : Click(ResizeNode, pos)
    \/ \E pos \in ResizeClickPositions : SecondaryDown(ResizeNode, pos)
    \/ \E key \in Keys : KeyDown(ResizeNode, key)
    \/ Paint(ResizeNode)
    \/ \E size \in ResizeSizes : Resize(ResizeNode, size)

SpecResize == Init /\ [][NextResize]_vars

\* ------------------------------------------------- the modal-dialog variant

\* Ids a "model-cleaner-data" event may carry.
ModalEventIds == {"1", "2"}

CancelEndpoint == "/model_cleaner_cancel"
StartEndpoint == "/model_cleaner_start"

\* model_cleaner.js, sendMessage: the POST to /model_cleaner_message with the
\* id as the event gave it; message is the selected indices joined by
\* commas, kept as the list it joins.
ModalSendMessage(id, message) ==
    [endpoint |-> "/model_cleaner_message", id |-> id, message |-> message]

\* The POST of sendCancel and of sendStart: no form fields.
CancelRequest == [endpoint |-> CancelEndpoint, id |-> "", message |-> <<>>]
StartRequest == [endpoint |-> StartEndpoint, id |-> "", message |-> <<>>]

\* ModelCleanerState.toggleModel (and InteractiveModelCleanerState's, which
\* has the same body).
toggleModel(st, index) ==
    [st EXCEPT !.selectedIndices = ToggleSelected(@, index)]

\* An open dialog: the id and the number of rows of the event that opened
\* it, and the disabled attribute of its proceed button.
Dialog(id, rows, disabled) ==
    [id |-> id, rows |-> rows, proceedDisabled |-> disabled]

\* updateButtonStates looks the proceed button up by its element id, which
\* every dialog uses: getElementById yields the first one in the document.
updateButtonStates(st, ds) ==
    IF ds = <<>> THEN ds
    ELSE [ds EXCEPT ![1].proceedDisabled = (Len(st.selectedIndices) = 0)]

createModelSelectionUI(st, ds, data) ==
    LET begun == setModels(setPaused(st, TRUE, data.id), data.models)
        opened == Append(ds, Dialog(data.id, Len(data.models), TRUE))
    IN  [state |-> begun, dialogs |-> updateButtonStates(begun, opened)]

\* document.body.removeChild(modal)
RemoveDialog(ds, d) == SubSeq(ds, 1, d - 1) \o SubSeq(ds, d + 1, Len(ds))

\* Every dialog is a full-window overlay of the same z-index: the pointer
\* reaches the last one of the document only.  Its buttons take the focus
\* by keyboard in any dialog; its rows are not focusable.
PointerReaches(d) == d = Len(dialogs)

\* The engine pushes a "model-cleaner-data" event.
ModelCleanerData(id, models) ==
    /\ Len(dialogs) < MaxDialogs
    /\ LET r == createModelSelectionUI(modelCleanerState, dialogs,
                                       [id |-> id, models |-> models])
       IN  /\ modelCleanerState' = r.state
           /\ dialogs' = r.dialogs
    /\ sent' = <<>>
    /\ failed' = FALSE
    /\ OtherwiseQuiet
    /\ UNCHANGED <<state, nodes, graph, sessMsgs>>

\* A click on row index of dialog d.
DialogRowClick(d, index) ==
    /\ d \in 1..Len(dialogs)
    /\ PointerReaches(d)
    /\ index \in 0..(dialogs[d].rows - 1)
    /\ LET st == toggleModel(modelCleanerState, index)
       IN  /\ modelCleanerState' = st
           /\ dialogs' = updateButtonStates(st, dialogs)
    /\ sent' = <<>>
    /\ failed' = FALSE
    /\ OtherwiseQuiet
    /\ UNCHANGED <<state, nodes, graph, sessMsgs>>

\* A click on the cancel button of dialog d.
DialogCancel(d) ==
    /\ d \in 1..Len(dialogs)
    /\ dialogs' = RemoveDialog(dialogs, d)
    /\ sent' = <<Request("dialogCancel", CancelRequest)>>
    /\ failed' \in TransportOutcomes(sent')
    /\ OtherwiseQuiet
    /\ modelCleanerState' = setPaused(modelCleanerState, FALSE, Null)
    /\ UNCHANGED <<state, nodes, graph, sessMsgs>>

\* A click on the proceed button of dialog d; a disabled button gets none.
DialogProceed(d) ==
    /\ d \in 1..Len(dialogs)
    /\ ~dialogs[d].proceedDisabled
    /\ LET selectedIndices == modelCleanerState.selectedIndices
       IN  IF Len(selectedIndices) > 0
           THEN /\ dialogs' = RemoveDialog(dialogs, d)
                /\ sent' = <<Request("proceed",
                                ModalSendMessage(dialogs[d].id, selectedIndices))>>
                /\ modelCleanerState' = setPaused(modelCleanerState, FALSE, Null)
           ELSE /\ sent' = <<>>
                /\ UNCHANGED modalVars
    /\ failed' \in TransportOutcomes(sent')
    /\ OtherwiseQuiet
    /\ sessMsgs' = Counted(sessMsgs, sent')
    /\ UNCHANGED <<state, nodes, graph>>

\* The host reports execution_start.
ExecutionStart ==
    /\ sent' = <<Request("executionStart", StartRequest)>>
    /\ failed' \in TransportOutcomes(sent')
    /\ OtherwiseQuiet
    /\ UNCHANGED <<state, nodes, graph, sessMsgs, modalVars>>

\* execution_interrupted ending the session without the cancel request.
ExecutionInterruptedSilently ==
    /\ sent' = <<>>
    /\ modelCleanerState' = setPaused(modelCleanerState, FALSE, Null)
    /\ failed' = FALSE
    /\ OtherwiseQuiet
    /\ UNCHANGED <<state, nodes, graph, sessMsgs, dialogs>>

\* The host reports execution_interrupted.
ExecutionInterrupted ==
    /\ IF modelCleanerState.paused
       THEN /\ sent' = <<Request("executionInterrupted", CancelRequest)>>
            /\ modelCleanerState' = setPaused(modelCleanerState, FALSE, Null)
       ELSE /\ sent' = <<>>
            /\ UNCHANGED modelCleanerState
    /\ failed' \in TransportOutcomes(sent')
    /\ OtherwiseQuiet
    /\ UNCHANGED <<state, nodes, graph, sessMsgs, dialogs>>

\* One participating node with its panel, the dialogs, and the host's
\* execution events.
ModalNode == 1

NextModal ==
    \/ \E hs \in HostSizes : NodeCreated(ModalNode, hs)
    \/ \E len \in 0..ModalMaxModels :
          DataReady(IdStr(ModalNode), ModelList(len))
    \/ \E pos \in ClickPositions : Click(ModalNode, pos)
    \/ \E id \in ModalEventIds, len \in 0..ModalMaxModels :
          ModelCleanerData(id, ModelList(len))
    \/ \E d \in 1..MaxDialogs, index \in 0..(ModalMaxModels - 1) :
          DialogRowClick(d, index)
    \/ \E d \in 1..MaxDialogs : DialogCancel(d)
    \/ \E d \in 1..MaxDialogs : DialogProceed(d)
    \/ ExecutionStart
    \/ ExecutionInterrupted

SpecModal == Init /\ [][NextModal]_vars

\* --------------------------------------------------- the scanner's actions

\* The step leaves the page as p, and the panel's bookkeeping alone.
PageBecomes(p) ==
    /\ state' = p.state
    /\ modelCleanerState' = p.modelCleanerState
    /\ nodes' = p.nodes
    /\ dialogs' = p.dialogs
    /\ scanners' = p.scanners
    /\ isScanning' = p.isScanning
    /\ handled' = 0
    /\ UNCHANGED <<graph, sessMsgs, currentLang>>

\* sendScanCancel: the request, sent at once; its response comes later.
SendsScanCancel(cancels) ==
    /\ sent' = IF cancels
               THEN <<Request("scanCancel",
                        [endpoint |-> ScanCancelEndpoint, id |-> "",
                         message |-> <<>>])>>
               ELSE <<>>
    /\ scanCancels' = IF cancels THEN scanCancels + 1 ELSE scanCancels
    /\ failed' = FALSE

\* The host adds scanner node s to the graph.
ScannerAdded(s) ==
    /\ ~scanners[s].added
    /\ PageBecomes([Page EXCEPT !.scanners[s] = onNodeAdded(@)])
    /\ SendsScanCancel(FALSE)

\* The host calls onExecutionStart of scanner node s.
ScannerExecutionStart(s) ==
    /\ scanners[s].added
    /\ PageBecomes(onExecutionStart(Page, s))
    /\ SendsScanCancel(FALSE)

\* The host calls onExecuted of scanner node s.
ScannerExecuted(s) ==
    /\ scanners[s].added
    /\ PageBecomes(onExecuted(Page, s))
    /\ SendsScanCancel(FALSE)

\* The host repaints scanner node s.
ScannerPaint(s) ==
    /\ scanners[s].added
    /\ PageBecomes([Page EXCEPT !.scanners[s] = scannerDrawForeground(@)])
    /\ SendsScanCancel(FALSE)

\* A pointer-down at pos on scanner node s.
ScannerMouseDown(s, pos) ==
    /\ scanners[s].added
    /\ scanCancels < MaxScanCancels
    /\ PageBecomes(Page)
    /\ SendsScanCancel(ScannerClickCancels(scanners[s], pos))

\* A key press anywhere in the document, inside a text input or not.
DocumentKeyDown(combo, inInput) ==
    /\ scanCancels < MaxScanCancels
    /\ PageBecomes(Page)
    /\ SendsScanCancel(ShortcutCancels(isScanning, combo, inInput))

\* The response of a scanner-cancel request arrives.
ScanCancelResponse(outcome) ==
    /\ scanCancels > 0
    /\ PageBecomes(scanCancelResponse(Page, outcome))
    /\ scanCancels' = scanCancels - 1
    /\ sent' = <<>>
    /\ failed' = FALSE

\* The engine pushes a progress event.
ScanProgress(progress) ==
    /\ PageBecomes(handleScanProgress(Page, progress))
    /\ SendsScanCancel(FALSE)

\* The engine pushes a scan-complete event.
ScanComplete ==
    /\ PageBecomes(handleScanComplete(Page))
    /\ SendsScanCancel(FALSE)

\* The engine pushes a cleanup-complete event.
CleanupComplete ==
    /\ PageBecomes(handleCleanupComplete(Page))
    /\ SendsScanCancel(FALSE)

\* The scanner nodes on their own.
NextScan ==
    \/ \E s \in ScannerIds : ScannerAdded(s)
    \/ \E s \in ScannerIds : ScannerExecutionStart(s)
    \/ \E s \in ScannerIds : ScannerExecuted(s)
    \/ \E s \in ScannerIds : ScannerPaint(s)
    \/ \E s \in ScannerIds, pos \in ScanClickPositions :
          ScannerMouseDown(s, pos)
    \/ \E combo \in KeyCombos, inInput \in BOOLEAN :
          DocumentKeyDown(combo, inInput)
    \/ \E outcome \in CancelOutcomes : ScanCancelResponse(outcome)
    \/ \E progress \in ScanProgressValues : ScanProgress(progress)
    \/ ScanComplete
    \/ CleanupComplete

SpecScan == Init /\ [][NextScan]_vars

\* A data event of the dialog variant while no dialog is open.
FirstModelCleanerData(id, models) ==
    /\ dialogs = <<>>
    /\ ModelCleanerData(id, models)

\* One scanner node taking the engine's events, next to one participating
\* node with its panel and its dialog.
EventsScanner == 1
EventsPanelNode == 1

NextEvents ==
    \/ ScannerAdded(EventsScanner)
    \/ ScannerExecutionStart(EventsScanner)
    \/ \E progress \in ScanProgressValues : ScanProgress(progress)
    \/ ScanComplete
    \/ CleanupComplete
    \/ \E hs \in HostSizes : NodeCreated(EventsPanelNode, hs)
    \/ \E len \in 0..ScanMaxModels :
          DataReady(IdStr(EventsPanelNode), ModelList(len))
    \/ \E pos \in ClickPositions : Click(EventsPanelNode, pos)
    \/ \E len \in 0..ScanMaxModels :
          FirstModelCleanerData(IdStr(EventsPanelNode), ModelList(len))
    \/ \E index \in 0..(ScanMaxModels - 1) : DialogRowClick(1, index)
    \/ DialogCancel(1)

SpecEvents == Init /\ [][NextEvents]_vars

\* One participating node with its panel and one dialog at a time, every
\* way of ending a session included.
DecideNode == 1

NextDecide ==
    \/ \E hs \in HostSizes : NodeCreated(DecideNode, hs)
    \/ \E len \in 0..ModalMaxModels :
          DataReady(IdStr(DecideNode), ModelList(len))
    \/ \E pos \in ClickPositions : Click(DecideNode, pos)
    \/ \E len \in 0..ModalMaxModels :
          FirstModelCleanerData(IdStr(DecideNode), ModelList(len))
    \/ \E index \in 0..(ModalMaxModels - 1) : DialogRowClick(1, index)
    \/ DialogCancel(1)
    \/ DialogProceed(1)
    \/ ExecutionStart
    \/ ExecutionInterrupted

SpecDecide == Init /\ [][NextDecide]_vars

\* The engine pushes a "model-cleaner-data" event that carries no candidate
\* list.
MalformedModelCleanerData(id) ==
    /\ LET r == createMalformedSelectionUI(modelCleanerState, dialogs, id)
       IN  /\ modelCleanerState' = r.state
           /\ dialogs' = r.dialogs
    /\ sent' = <<>>
    /\ failed' = FALSE
    /\ OtherwiseQuiet
    /\ UNCHANGED <<state, nodes, graph, sessMsgs>>

\* One participating node with its panel and one dialog at a time, and
\* events with and without a candidate list.
MalformedNode == 1
MalformedEventIds == {"1", "9"}

NextMalformed ==
    \/ \E hs \in HostSizes : NodeCreated(MalformedNode, hs)
    \/ \E len \in 0..MaxModels :
          DataReady(IdStr(MalformedNode), ModelList(len))
    \/ \E id \in MalformedEventIds : MalformedDataReady(id)
    \/ \E pos \in ClickPositions : Click(MalformedNode, pos)
    \/ \E len \in 0..ModalMaxModels :
          FirstModelCleanerData(IdStr(MalformedNode), ModelList(len))
    \/ \E id \in MalformedEventIds : MalformedModelCleanerData(id)
    \/ \E index \in 0..(ModalMaxModels - 1) : DialogRowClick(1, index)
    \/ DialogCancel(1)

SpecMalformed == Init /\ [][NextMalformed]_vars

\* ------------------------------------------------- the locale of the panel

LangNode == 1

NextLang ==
    \/ \E hs \in HostSizes : NodeCreated(LangNode, hs)
    \/ \E len \in 0..MaxModels, lang \in LangTags :
          DataReadyEvent(IdStr(LangNode), ModelList(len), lang)
    \/ \E pos \in ClickPositions : Click(LangNode, pos)

SpecLang == Init /\ [][NextLang]_vars

\* ------------------------------------------------------------ properties

\* The step is a click on node n that handleNodeClick resolves to act.
IsClick(n, act) ==
    \E pos \in ClickPositions :
        /\ InGraph(n)
        /\ nodes[n].isInteractiveModelCleaner
        /\ handleNodeClick(state, nodes[n], pos).act = act
        /\ Click(n, pos)

\* The indices of the set S in ascending order.
Ascending(S) ==
    CHOOSE q \in [1..Cardinality(S) -> S] :
        \A i, j \in 1..Cardinality(S) : i < j => q[i] < q[j]

\* C1: every session opened by a data-ready event gets exactly one request
\* (decision or cancel) carrying its id: never more than one, and not zero
\* once the session object has been cleared.
C1_ExactlyOneMessagePerSession ==
    \A i \in SessionIds :
        sessMsgs[i] # NoSession =>
            /\ sessMsgs[i] <= 1
            /\ ~state.paused => sessMsgs[i] = 1

\* C2: once a request has been sent for a session id and the session has
\* been cleared, no step before the next data-ready event for that id sends
\* a request with that id or toggles a row of that node.
C2_NoActionAfterSessionCleared ==
    [][\A n \in InteractiveIds :
          (sessMsgs[IdStr(n)] >= 1 /\ ~state.paused
             /\ sessMsgs'[IdStr(n)] # 0) =>
              /\ \A k \in 1..Len(sent') : sent'[k].id # IdStr(n)
              /\ nodes'[n].selectedModels = nodes[n].selectedModels]_vars

\* C3: a cancel click on a node whose session was already ended by a request
\* and cleared (paused = false) sends no request and changes neither the
\* session object nor any node.
C3_CancelIdempotent ==
    [][\A n \in InteractiveIds :
          (~state.paused /\ sessMsgs[IdStr(n)] >= 1 /\ IsClick(n, "cancel")) =>
              (sent' = <<>> /\ state' = state /\ nodes' = nodes)]_vars

\* C4: a request issued by the cancel button is a cancel request, not a
\* request to the decision endpoint, and the session is cleared after it.
C4_CancelSendsCancelKind ==
    \A k \in 1..Len(sent) :
        sent[k].button = "cancel" =>
            (sent[k].endpoint = CancelEndpoint /\ ~state.paused)

\* C5: a confirm click on node n while a session is paused sends one
\* decision whose payload lists the selected indices of n in ascending
\* order, and clears the session.
C5_ConfirmSendsAscendingSelection ==
    [][\A n \in InteractiveIds :
          (state.paused /\ IsClick(n, "confirm")) =>
              /\ sent' = <<Request("confirm",
                     sendMessage(n, Ascending(Elements(nodes[n].selectedModels))))>>
              /\ ~state'.paused
              /\ nodes'[n].models = <<>>
              /\ nodes'[n].selectedModels = <<>>]_vars

\* C6: on every node, and in the session object, every selected index is an
\* index of the current candidate list.
C6_SelectionWithinBounds ==
    /\ \A n \in NodeIds :
          \A i \in Elements(nodes[n].selectedModels) :
              0 <= i /\ i < Len(nodes[n].models)
    /\ \A i \in Elements(state.selectedIndices) :
          0 <= i /\ i < Len(state.models)

\* A node shows a list longer than the panel, scrolled, with its last
\* candidate and another one selected.
C6_Witness ==
    \E n \in InteractiveIds :
        /\ Len(nodes[n].models) > nodes[n].maxVisibleModels
        /\ nodes[n].scrollOffset > 0
        /\ Len(nodes[n].selectedModels) >= 2
        /\ SetHas(nodes[n].selectedModels, Len(nodes[n].models) - 1)

\* C7: on every node 0 <= scrollOffset <= max(0, len(candidates) - maxVisible).
C7_ScrollOffsetInRange ==
    \A n \in NodeIds :
        /\ 0 <= nodes[n].scrollOffset
        /\ nodes[n].scrollOffset <=
               Max(0, Len(nodes[n].models) - nodes[n].maxVisibleModels)

\* C8: while paused = false, the session object and every participating
\* node hold no candidates and no selection.
C8_NothingStaleWhenNotPaused ==
    ~state.paused =>
        /\ state.models = <<>> /\ state.selectedIndices = <<>>
        /\ \A n \in NodeIds :
              nodes[n].models = <<>> /\ nodes[n].selectedModels = <<>>

\* C9: right after the cancel or the confirm button of a node has sent its
\* request, that node has no candidates, no selection and scroll offset 0,
\* and paused = false.
C9_EndSessionClearsEverything ==
    \A k \in 1..Len(sent) : \A n \in InteractiveIds :
        sent[k].id = IdStr(n) =>
            /\ nodes[n].models = <<>>
            /\ nodes[n].selectedModels = <<>>
            /\ nodes[n].scrollOffset = 0
            /\ ~state.paused

\* C10: a data-ready event for a node whose session is pending replaces the
\* session: the node then holds the event's candidates, an empty selection,
\* and shows the list from its first row.
C10_DataReadyReplacesSession ==
    [][\A n \in InteractiveIds : \A len \in 0..MaxModels :
          (/\ state.paused /\ state.currentNodeId = IdStr(n)
           /\ nodes[n].isInteractiveModelCleaner
           /\ DataReady(IdStr(n), ModelList(len))) =>
              /\ nodes'[n].models = ModelList(len)
              /\ nodes'[n].selectedModels = <<>>
              /\ state'.models = ModelList(len)
              /\ nodes'[n].scrollOffset = 0
              /\ len > 0 =>
                    /\ nodes'[n].modelRects # <<>>
                    /\ nodes'[n].modelRects[1].index = 0]_vars

\* C11: when execution_interrupted arrives while the session shown by the
\* panel is paused, a cancel request is sent and that session is cleared.
C11_InterruptCancelsPanelSession ==
    [][(/\ state.paused
        /\ nodes[ModalNode].models # <<>>
        /\ ExecutionInterrupted) =>
           /\ \E k \in 1..Len(sent') : sent'[k].endpoint = CancelEndpoint
           /\ ~state'.paused]_vars

\* C12: with a pending session on each of two participating nodes, a click
\* on one node changes neither the other node's selection, nor the request
\* the other node's confirm button would send, nor its paused status.
C12_SessionsDoNotInterfere ==
    [][\A n, m \in InteractiveIds : \A pos \in ClickPositions :
          (/\ n # m
           /\ state.paused
           /\ nodes[n].models # <<>> /\ nodes[m].models # <<>>
           /\ Click(n, pos)) =>
              /\ nodes'[m].selectedModels = nodes[m].selectedModels
              /\ ConfirmMessage(state', nodes'[m]) =
                     ConfirmMessage(state, nodes[m])
              /\ state'.paused = state.paused]_vars

\* C13: a step whose request fails in transport leaves the session objects
\* and the nodes (paused, candidates, selection) as they were.
C13_TransportFailureKeepsState ==
    [][failed' =>
          /\ state' = state
          /\ nodes' = nodes
          /\ modelCleanerState' = modelCleanerState]_vars

\* C14: a data-ready event with an empty id begins no session: the session
\* object and every node stay as they were.
C14_EmptyIdIgnored ==
    [][\A len \in 0..MaxModels :
          DataReady("", ModelList(len)) =>
              (state' = state /\ nodes' = nodes)]_vars

\* C15: the request a confirm click sends while a session is paused carries
\* the id of the data-ready event that opened the session.
C15_DecisionCarriesSessionId ==
    [][\A n \in InteractiveIds :
          (state.paused /\ IsClick(n, "confirm")) =>
              /\ sent' # <<>>
              /\ \A k \in 1..Len(sent') : sent'[k].id = state.currentNodeId]_vars

\* C16: in every reachable state, for every row a click can toggle, toggling
\* it twice gives back the same selection set, leaves the rest of the node
\* and the session object as they were, and sends nothing; toggling it once
\* flips the row's membership.
C16_DoubleToggleRestores ==
    \A n \in InteractiveIds : \A pos \in ClickPositions :
        LET once == handleNodeClick(state, nodes[n], pos)
            twice == handleNodeClick(once.state, once.node, pos)
        IN  once.act = "toggle" =>
              /\ SetHas(once.node.selectedModels, once.index) #
                     SetHas(nodes[n].selectedModels, once.index)
              /\ twice.act = "toggle" /\ twice.index = once.index
              /\ Elements(twice.node.selectedModels) =
                     Elements(nodes[n].selectedModels)
              /\ [twice.node EXCEPT !.selectedModels = <<>>] =
                     [nodes[n] EXCEPT !.selectedModels = <<>>]
              /\ twice.state = state
              /\ once.sent = <<>> /\ twice.sent = <<>>

\* Two rows are selected and a click can toggle the one selected first.
C16_Witness ==
    \E n \in InteractiveIds : \E pos \in ClickPositions :
        LET once == handleNodeClick(state, nodes[n], pos)
        IN  /\ once.act = "toggle"
            /\ Len(nodes[n].selectedModels) >= 2
            /\ nodes[n].selectedModels[1] = once.index

\* C17: a toggle with an index that is not an index of the current
\* candidate list leaves the selection as it was.
C17_OutOfBoundsToggleIsNoOp ==
    [][\A d \in 1..MaxDialogs : \A index \in 0..(ModalMaxModels - 1) :
          (/\ index >= Len(modelCleanerState.models)
           /\ DialogRowClick(d, index)) =>
              modelCleanerState'.selectedIndices =
                  modelCleanerState.selectedIndices]_vars

\* C18: on every node the candidate rows are exactly the indices
\* scrollOffset .. scrollOffset + min(len - scrollOffset, maxVisible) - 1,
\* in that order.
C18_RowsAreTheVisibleWindow ==
    \A n \in InteractiveIds :
        LET node == nodes[n]
            count == Max(0, Min(Len(node.models) - node.scrollOffset,
                                node.maxVisibleModels))
        IN  /\ Len(node.modelRects) = count
            /\ \A k \in 1..Len(node.modelRects) :
                  node.modelRects[k].index = node.scrollOffset + (k - 1)

\* C19: on a node whose list is longer than the panel, the scroll-up region
\* is there exactly when scrollOffset > 0 and the scroll-down region exactly
\* when scrollOffset < len - maxVisible.
C19_ScrollRegionsAtTheEnds ==
    \A n \in InteractiveIds :
        LET node == nodes[n]
            maxScroll == Len(node.models) - node.maxVisibleModels
        IN  (/\ node.maxVisibleModels > 0
             /\ maxScroll > 0
             /\ node.scrollOffset \in 0..maxScroll) =>
                /\ Has(node.buttonRects, "scrollUp") <=> node.scrollOffset > 0
                /\ Has(node.buttonRects, "scrollDown") <=>
                       node.scrollOffset < maxScroll

\* C20: on every node the scroll regions exist only when the list is longer
\* than the panel, and every candidate row carries an index of the current
\* candidate list.
C20_RegionMapReflectsSession ==
    \A n \in InteractiveIds :
        LET node == nodes[n]
        IN  /\ (Has(node.buttonRects, "scrollUp")
                  \/ Has(node.buttonRects, "scrollDown")) =>
                   Len(node.models) > node.maxVisibleModels
            /\ \A k \in 1..Len(node.modelRects) :
                  node.modelRects[k].index < Len(node.models)

\* C21: a pointer position resolves to the first of candidate row,
\* scroll-up, scroll-down, cancel, confirm whose region holds it, else to
\* none; rows count only while paused with a non-empty list, so a click that
\* lands on a row while not paused leaves the selection alone unless it also
\* lands on cancel or confirm.
C21_HitTestPriority ==
    \A n \in InteractiveIds : \A pos \in ResizeClickPositions :
        LET node == nodes[n]
            r == handleNodeClick(state, node, pos)
            rows == state.paused /\ Len(node.models) > 0
            expected ==
                IF rows /\ HitRow(node, pos) # 0 THEN "toggle"
                ELSE IF HitButton(node, pos, "scrollUp") THEN "scrollUp"
                ELSE IF HitButton(node, pos, "scrollDown") THEN "scrollDown"
                ELSE IF HitButton(node, pos, "cancel") THEN "cancel"
                ELSE IF HitButton(node, pos, "confirm") THEN "confirm"
                ELSE "none"
        IN  /\ r.act = expected
            /\ r.result = (expected # "none")
            /\ (~state.paused /\ r.act \notin {"cancel", "confirm"}) =>
                   r.node.selectedModels = node.selectedModels

\* While paused, a point lies both in a candidate row and in the cancel
\* button, and the row has been toggled.
C21_Witness ==
    \E n \in InteractiveIds : \E pos \in ResizeClickPositions :
        LET node == nodes[n]
        IN  /\ state.paused /\ HitRow(node, pos) # 0
            /\ HitButton(node, pos, "cancel")
            /\ SetHas(node.selectedModels,
                      node.modelRects[HitRow(node, pos)].index)

\* C22: in every reachable state, a pointer-down returns true without
\* invoking the original handler when it is a primary click for which the
\* hit tester produces an action; otherwise it changes nothing, sends
\* nothing, invokes the original handler (if the node had one) and returns
\* what that handler returns.
C22_ConsumedExactlyOnAction ==
    \A n \in InteractiveIds : \A pos \in ResizeClickPositions :
        \A isPrimary \in BOOLEAN : \A original \in OriginalHandlers :
            LET node == nodes[n]
                hit == handleNodeClick(state, node, pos)
                r == onMouseDown(state, node, isPrimary, pos, original)
            IN  (InGraph(n) /\ node.isInteractiveModelCleaner) =>
                  IF isPrimary /\ hit.act # "none"
                  THEN /\ r.returned = "true"
                       /\ ~r.originalInvoked
                       /\ r.state = hit.state /\ r.node = hit.node
                       /\ r.sent = hit.sent
                  ELSE /\ r.originalInvoked = (original # "absent")
                       /\ r.returned = CallOriginal(original).returned
                       /\ r.state = state /\ r.node = node
                       /\ r.sent = <<>>

\* A session is paused with a row selected, and some position is on a row,
\* some on a button and some on no region.
C22_Witness ==
    \E n \in InteractiveIds :
        /\ state.paused /\ nodes[n].selectedModels # <<>>
        /\ \E pos \in ClickPositions :
              handleNodeClick(state, nodes[n], pos).act = "toggle"
        /\ \E pos \in ClickPositions :
              handleNodeClick(state, nodes[n], pos).act = "confirm"
        /\ \E pos \in ClickPositions :
              handleNodeClick(state, nodes[n], pos).act = "none"

\* C23: after every step each participating node of the graph has its
\* cancel and its confirm region, and a confirm click on a node for which no
\* data-ready event has arrived yet sends one decision with an empty
\* selection.
C23_ButtonsAlwaysPresent ==
    [][/\ \A n \in InteractiveIds :
            (\E k \in 1..Len(graph') : graph'[k] = n) =>
                /\ Has(nodes'[n].buttonRects, "cancel")
                /\ Has(nodes'[n].buttonRects, "confirm")
       /\ \A n \in InteractiveIds :
            (sessMsgs[IdStr(n)] = NoSession /\ IsClick(n, "confirm")) =>
                sent' = <<Request("confirm", sendMessage(n, <<>>))>>]_vars

\* A confirm click has just sent its decision for a node that no data-ready
\* event has reached.
C23_Witness ==
    \E n \in InteractiveIds :
        /\ sessMsgs[IdStr(n)] = NoSession
        /\ sent = <<Request("confirm", sendMessage(n, <<>>))>>
        /\ Has(nodes[n].buttonRects, "confirm")

\* C24: one data-ready event runs the data-ready handler exactly once.
C24_OneHandlerPerEvent ==
    [][\A id \in EventIds : \A len \in 0..MaxModels :
          DataReady(id, ModelList(len)) => handled' = 1]_vars

\* The event's id is the id of a node of the graph.
ResolvesById(g, id) == id # "" /\ \E k \in 1..Len(g) : IdStr(g[k]) = id

\* The first node of the graph marked as participating, NoNode if none is.
FirstMarked(g, ns) ==
    LET marked == {k \in 1..Len(g) : ns[g[k]].isInteractiveModelCleaner}
    IN  IF marked = {} THEN NoNode
        ELSE g[CHOOSE k \in marked : \A j \in marked : k <= j]

\* C28: a data-ready event whose id is the id of no node of the graph loads
\* its list into the first participating node of the graph and changes no
\* other node; with no participating node it changes no node.  (A step is
\* a data-ready event exactly when it ran the handler; the handler leaves
\* the event's id and list in the session object.)
C28_FallbackScan ==
    [][(handled' > 0 /\ ~ResolvesById(graph, state'.currentNodeId)) =>
          LET m == FirstMarked(graph, nodes)
          IN  IF m # NoNode
              THEN /\ nodes'[m].models = state'.models
                   /\ nodes'[m].selectedModels = <<>>
                   /\ \A o \in NodeIds \ {m} : nodes'[o] = nodes[o]
              ELSE nodes' = nodes]_vars

\* Two participating nodes are in the graph, node 2 first, and an event
\* with the id of no node has just loaded its list into node 2.
C28_Witness ==
    /\ graph = <<2, 1>>
    /\ handled > 0
    /\ state.currentNodeId = "9"
    /\ nodes[2].models # <<>>
    /\ nodes[1].models = <<>>

\* The step is a progress event.
IsScanProgress == \E progress \in ScanProgressValues : ScanProgress(progress)

\* C25: a progress event leaves every scanner node that is not scanning as
\* it was.
C25_ProgressOnlyWhileScanning ==
    [][IsScanProgress =>
          \A s \in ScannerIds :
              scanners[s].scanStatus # "scanning" =>
                  scanners'[s] = scanners[s]]_vars

\* C26: after a scan-complete event no scanner node is in the scanning
\* state.
C26_CompletionClearsScanning ==
    [][ScanComplete =>
          \A s \in ScannerIds : scanners'[s].scanStatus # "scanning"]_vars

\* C27: a scan-complete, a cleanup-complete and a progress event leave both
\* session objects, the dialogs and every panel node (candidates, selection,
\* scroll offset) as they were.
C27_EventsLeaveSessionAlone ==
    [][(ScanComplete \/ CleanupComplete \/ IsScanProgress) =>
          /\ state' = state
          /\ modelCleanerState' = modelCleanerState
          /\ dialogs' = dialogs
          /\ nodes' = nodes]_vars

\* Both sessions are paused, each with a row selected, and the scanner node
\* has just taken a progress event.
C27_Witness ==
    /\ state.paused
    /\ \E n \in InteractiveIds : nodes[n].selectedModels # <<>>
    /\ modelCleanerState.paused
    /\ modelCleanerState.selectedIndices # <<>>
    /\ dialogs # <<>>
    /\ handled = 0
    /\ \E s \in ScannerIds :
          scanners[s].scanStatus = "scanning" /\ scanners[s].scanProgress > 0
    /\ ~isScanning

\* C29: a key press sends a scanner-cancel request only while isScanning
\* is true and only when its target is not inside a text input.
C29_ShortcutOnlyWhileScanningOutsideInputs ==
    [][\A combo \in KeyCombos : \A inInput \in BOOLEAN :
          (DocumentKeyDown(combo, inInput) /\ (~isScanning \/ inInput)) =>
              sent' = <<>>]_vars

\* The keys of the texts that are drawn in one fixed locale, and of the
\* labels of list data.
FixedLocaleKeys ==
    {"waiting_for_data", "run_workflow_to_get_models",
     "cancel", "confirm", "proceed"}
ListDataKeys ==
    {"found_unused_models", "action_mode", "backup_folder", "selected_count"}

\* C30: whatever the active locale, every panel draws the waiting message,
\* the run-the-workflow message and the button labels from the table of one
\* fixed locale, and the labels of list data from the table of the active
\* locale.
C30_FixedLocaleMessages ==
    \A n \in InteractiveIds :
        LET drawn == DrawnTexts(nodes[n], currentLang)
        IN  /\ \A text \in drawn :
                  /\ text.key \in FixedLocaleKeys => text.lang = "en"
                  /\ text.key \in ListDataKeys => text.lang = currentLang
            /\ \E text \in drawn : text.key = "cancel"
            /\ \E text \in drawn : text.key \in {"confirm", "proceed"}
            /\ Len(nodes[n].models) = 0 =>
                  \E text \in drawn : text.key = "waiting_for_data"
            /\ Len(nodes[n].selectedModels) > 0 =>
                  \E text \in drawn : text.key = "selected_count"

\* An event has switched the locale, and a node shows a list with a row
\* selected.
C30_Witness ==
    /\ currentLang = "en"
    /\ \E n \in InteractiveIds :
          /\ Len(nodes[n].models) > 0
          /\ Len(nodes[n].selectedModels) > 0

\* The step has sent a decision or a cancel of the panel, of the dialog
\* variant.
PanelMessageSent ==
    \E k \in 1..Len(sent') : sent'[k].button \in {"cancel", "confirm"}
ModalMessageSent ==
    \E k \in 1..Len(sent') :
        sent'[k].button \in {"dialogCancel", "proceed", "executionInterrupted"}

\* C31: a paused session is ended (paused becomes false, the candidates
\* are cleared) only by a step that has sent a decision or a cancel, and
\* every step that sends a decision or a cancel leaves its session ended;
\* for the panel's session and for the dialog variant's.
C31_EndedOnlyWithMessage ==
    [][/\ (state.paused /\ ~state'.paused) => PanelMessageSent
       /\ (modelCleanerState.paused /\ ~modelCleanerState'.paused) =>
              ModalMessageSent
       /\ PanelMessageSent => (~state'.paused /\ state'.models = <<>>)
       /\ ModalMessageSent =>
              (~modelCleanerState'.paused /\ modelCleanerState'.models = <<>>)
      ]_vars

\* A confirm click has just sent a non-empty selection and ended the
\* panel's session, while the dialog variant's session is still paused.
C31_Witness ==
    /\ sent # <<>>
    /\ sent[1].button = "confirm"
    /\ sent[1].message # <<>>
    /\ ~state.paused
    /\ state.models = <<>>
    /\ modelCleanerState.paused

\* The step is a data-ready event without a candidate list, of the panel or
\* of the dialog variant.
IsMalformedEvent ==
    \E id \in MalformedEventIds :
        MalformedDataReady(id) \/ MalformedModelCleanerData(id)

\* C32: a data-ready event without a candidate list raises no exception
\* and leaves both session objects, the nodes and the dialogs as they were.
C32_MalformedEventRejected ==
    [][IsMalformedEvent =>
          /\ state' = state
          /\ modelCleanerState' = modelCleanerState
          /\ nodes' = nodes
          /\ dialogs' = dialogs
          /\ \A id \in MalformedEventIds :
                /\ ~handleMalformedData([state |-> state, nodes |-> nodes],
                                        graph, id).threw
                /\ ~createMalformedSelectionUI(modelCleanerState, dialogs,
                                               id).threw]_vars

\* C33: isScanning is true exactly when some scanner node of the graph is
\* in the scanning state.
C33_FlagMatchesNodes ==
    isScanning <=>
        \E s \in ScannerIds :
            scanners[s].added /\ scanners[s].scanStatus = "scanning"

\* C34: the acknowledgement of a scanner-cancel request changes only nodes
\* that are scanning (a completed node is never moved to cancelled), and a
\* refused or failed request leaves isScanning and every node as they were.
C34_AckTouchesOnlyScanningNodes ==
    [][/\ ScanCancelResponse("success") =>
              \A s \in ScannerIds :
                  scanners[s].scanStatus # "scanning" =>
                      scanners'[s] = scanners[s]
       /\ (ScanCancelResponse("refused") \/ ScanCancelResponse("error")) =>
              (isScanning' = isScanning /\ scanners' = scanners)]_vars

\* With one dialog at a time, a dialog that is open while the session object
\* is not paused is the dialog of a session that execution_interrupted has
\* cancelled: the dialog's own cancel and proceed close it.
DialogOfCancelledSession(d) ==
    /\ d \in 1..Len(dialogs)
    /\ ~modelCleanerState.paused

\* C35: a dialog whose session has been cancelled sends no decision and no
\* second cancel.
C35_NothingAfterCancel ==
    [][\A d \in 1..MaxDialogs :
          (DialogOfCancelledSession(d) /\ (DialogCancel(d) \/ DialogProceed(d)))
              => sent' = <<>>]_vars

\* C36: a dialog behind the dialog of a newer session leaves the session
\* object alone: a click on one of its rows does not change the selection,
\* and its proceed button does not send the session's selection under its
\* own id.
C36_EarlierDialogIsInert ==
    [][\A d \in 1..MaxDialogs :
          (/\ d < Len(dialogs)
           /\ modelCleanerState.paused
           /\ dialogs[d].id # modelCleanerState.currentNodeId) =>
              /\ \A index \in 0..(ModalMaxModels - 1) :
                    DialogRowClick(d, index) =>
                        modelCleanerState' = modelCleanerState
              /\ DialogProceed(d) =>
                    \A k \in 1..Len(sent') :
                        ~(/\ sent'[k].id = dialogs[d].id
                          /\ sent'[k].message =
                                modelCleanerState.selectedIndices)]_vars

\* The step is a scroll on node n: a click on a scroll button, or an arrow
\* key on a list longer than the panel.
IsScroll(n) ==
    \/ IsClick(n, "scrollUp")
    \/ IsClick(n, "scrollDown")
    \/ /\ Len(nodes[n].models) > nodes[n].maxVisibleModels
       /\ \E key \in Keys : KeyDown(n, key)

\* C37: a row toggle changes nothing but the node's selection, and a scroll
\* changes nothing but the node's scroll offset and its row regions; neither
\* sends a message.
C37_ToggleAndScrollFrame ==
    [][\A n \in InteractiveIds :
          /\ IsClick(n, "toggle") =>
                /\ nodes' = [nodes EXCEPT
                                ![n].selectedModels = nodes'[n].selectedModels]
                /\ state' = state
                /\ sent' = <<>>
          /\ IsScroll(n) =>
                /\ nodes' = [nodes EXCEPT
                                ![n].scrollOffset = nodes'[n].scrollOffset,
                                ![n].modelRects = nodes'[n].modelRects]
                /\ state' = state
                /\ sent' = <<>>]_vars

\* C38: on every participating node of the graph the cancel and confirm
\* regions a click is tested against are the rectangles at which the painter
\* draws the two buttons.
C38_LayoutAgreesWithRenderer ==
    \A n \in InteractiveIds :
        (InGraph(n) /\ nodes[n].isInteractiveModelCleaner) =>
            LET drawn == BottomRects(nodes[n], paintButtonInset)
            IN  /\ Get(nodes[n].buttonRects, "cancel") = Get(drawn, "cancel")
                /\ Get(nodes[n].buttonRects, "confirm") = Get(drawn, "confirm")

=============================================================================
